---- MODULE Spec2Model ----
(***************************************************************************)
(* Model of the movement / manual-override state machine of Dorfl.ino      *)
(* (WiFi curtain/blinds switch firmware).                                  *)
(*                                                                         *)
(* One loop() iteration is modelled as the phases                          *)
(*   gpioLoop -> movementLoop -> wifimanagerLoop -> [mqttLoop] -> delay    *)
(* each phase being one action that models the whole handler.  Handlers    *)
(* are written as operators over a record of the program's globals, so     *)
(* that the calls they make (stopL1, updateBlindPos, mqttCommunicate ...)  *)
(* compose in the order of the source.                                     *)
(*                                                                         *)
(* Time.  The source reads millis() only in differences with a stored      *)
(* time stamp (millis() - manualLockActivatorTime, millis() -              *)
(* movementStartTime), in unsigned arithmetic.  The model therefore keeps  *)
(* the two differences themselves, under the names the source gives them:  *)
(*   manualActivatorDelay = millis() - manualLockActivatorTime             *)
(*   moved                = millis() - movementStartTime                   *)
(* "x = millis()" sets the difference to 0 and the passing of time adds to *)
(* it.  Time passes between loop iterations (a handler runs at one         *)
(* instant), in milliseconds.  manualActivatorDelay is compared with 200   *)
(* and 500 only, so it saturates at 500.  moved, movementTimeout and       *)
(* movementL1 are read only while movementProgress is set (every read is   *)
(* guarded by it, and startL1/startL2 overwrite all three); the handlers   *)
(* leave them as the source does, and the end of the iteration (Delay)     *)
(* clears them when no movement is in progress.                            *)
(*                                                                         *)
(* Provisioning (WiFiManager portal, settings file, restart) is an         *)
(* external collaborator: startWifiManager(true) is modelled as the        *)
(* request it makes, the pairing BUTTON is not modelled, and the           *)
(* configuration is fixed at boot.                                         *)
(***************************************************************************)
EXTENDS Integers, Sequences, FiniteSets, TLC

----------------------------------------------------------------------------
(* Program constants (#define)                                             *)
SWITCH_S1 == 4
SWITCH_S2 == 5
LOOP_DELAY_MS == 10
MANUAL_LOCK_MIN_DELAY_MS == 200
MANUAL_LOCK_MAX_DELAY_MS == 500
MANUAL_SETUP_COUNTER == 5

(* Bounds of the model                                                     *)
MaxPosSec == 2       \* configured "blinds max pos", in seconds
MaxTaps == 2         \* quick taps in a row that the environment makes (Spec)
MaxSetupTaps == 6    \* the same, where the setup gesture is examined (SpecTaps)

(* Times a loop iteration may take (processing plus the optional delay).   *)
Dts == {0, 250, 500}

(* Command payloads on the /cmd topic, as character sequences.             *)
Digit == <<"0", "1", "2", "3", "4", "5", "6", "7", "8", "9">>
CMD_MOVE_ABS == <<"m", "v", "a">>
CMD_MOVE_REL == <<"m", "v", "r">>
CMD_SETUP == <<"s", "e", "t">>
NoMsg == <<>>

Numeral(n) == IF n < 0 THEN <<"-", Digit[1 - n]>> ELSE <<Digit[n + 1]>>
Payloads == {CMD_MOVE_ABS \o Numeral(n) : n \in 0..(MaxPosSec + 1)}
              \cup {CMD_MOVE_REL \o Numeral(n) : n \in -1..1}
              \cup {CMD_MOVE_ABS \o <<"x">>, CMD_MOVE_REL, CMD_SETUP}

----------------------------------------------------------------------------
VARIABLES
  \* configuration (read from /config.json at boot)
  blindMaxPos, blindInvertZero, blindInvertSwitch, blindDisableManualLock,
  \* globals of the sketch
  blindPos, manualMode, manualLocked, manualActivatorDelay,
  manualLockActivatorSwitch, manualSetupModeCounter,
  moved, movementTimeout, movementL1, movementProgress, offline,
  \* hardware: the relay outputs
  relayL1, relayL2,
  \* the position in loop(), and the number of quick taps in a row the
  \* environment is allowed (fixed at Init)
  pc, tapLimit,
  \* history: both relays were HIGH at some instant; what the last handler emitted
  bothOn, out

config == <<blindMaxPos, blindInvertZero, blindInvertSwitch, blindDisableManualLock>>
vars == <<blindMaxPos, blindInvertZero, blindInvertSwitch, blindDisableManualLock,
          blindPos, manualMode, manualLocked, manualActivatorDelay,
          manualLockActivatorSwitch, manualSetupModeCounter,
          moved, movementTimeout, movementL1, movementProgress, offline,
          relayL1, relayL2, pc, tapLimit, bothOn, out>>

(* The globals as one record, the form the handlers work on.  conn is the  *)
(* answer of mqttClient.connected() during the handler.                    *)
G(conn) ==
  [blindPos |-> blindPos, manualMode |-> manualMode, manualLocked |-> manualLocked,
   manualActivatorDelay |-> manualActivatorDelay,
   manualLockActivatorSwitch |-> manualLockActivatorSwitch,
   manualSetupModeCounter |-> manualSetupModeCounter,
   moved |-> moved, movementTimeout |-> movementTimeout,
   movementL1 |-> movementL1, movementProgress |-> movementProgress,
   offline |-> offline, relayL1 |-> relayL1, relayL2 |-> relayL2,
   bothOn |-> bothOn, out |-> <<>>, conn |-> conn]

Store(g) ==
  /\ blindPos' = g.blindPos
  /\ manualMode' = g.manualMode
  /\ manualLocked' = g.manualLocked
  /\ manualActivatorDelay' = g.manualActivatorDelay
  /\ manualLockActivatorSwitch' = g.manualLockActivatorSwitch
  /\ manualSetupModeCounter' = g.manualSetupModeCounter
  /\ moved' = g.moved
  /\ movementTimeout' = g.movementTimeout
  /\ movementL1' = g.movementL1
  /\ movementProgress' = g.movementProgress
  /\ offline' = g.offline
  /\ relayL1' = g.relayL1
  /\ relayL2' = g.relayL2
  /\ bothOn' = g.bothOn
  /\ out' = g.out

----------------------------------------------------------------------------
(* Text conversions                                                        *)

\* C integer division (truncates toward zero)
CDiv(a, b) == IF a >= 0 THEN a \div b ELSE -((-a) \div b)

RECURSIVE UDigits(_)
UDigits(n) == IF n < 10 THEN <<Digit[n + 1]>>
              ELSE UDigits(n \div 10) \o <<Digit[(n % 10) + 1]>>

\* ltoa(n, buf, 10)
ltoa(n) == IF n < 0 THEN <<"-">> \o UDigits(-n) ELSE UDigits(n)

IsDigit(c) == \E i \in 1..10 : Digit[i] = c
DigitVal(c) == (CHOOSE i \in 1..10 : Digit[i] = c) - 1

RECURSIVE AtoiDigits(_, _)
AtoiDigits(s, acc) ==
  IF s = <<>> \/ ~IsDigit(Head(s)) THEN acc
  ELSE AtoiDigits(Tail(s), 10 * acc + DigitVal(Head(s)))

RECURSIVE SkipSpace(_)
SkipSpace(s) == IF s # <<>> /\ Head(s) = " " THEN SkipSpace(Tail(s)) ELSE s

\* atoi(): optional blanks, optional sign, then digits up to the first non-digit;
\* 0 when there is no digit
atoi(str) ==
  LET s == SkipSpace(str)
  IN  IF s # <<>> /\ Head(s) = "-" THEN -AtoiDigits(Tail(s), 0)
      ELSE IF s # <<>> /\ Head(s) = "+" THEN AtoiDigits(Tail(s), 0)
      ELSE AtoiDigits(s, 0)

startsWith(s, p) == Len(s) >= Len(p) /\ SubSeq(s, 1, Len(p)) = p
substring(s, from) == SubSeq(s, from + 1, Len(s))
\* the copy without the limit of 9 characters
payloadCopy_whole(payload) == payload

\* strncpy of at most 9 characters into payloadCopy[10]
payloadCopy(payload) == SubSeq(payload, 1, IF Len(payload) < 9 THEN Len(payload) ELSE 9)

----------------------------------------------------------------------------
(* Events a handler emits                                                  *)
Publish(msg) == [ev |-> "publish", msg |-> msg]
SetupRequest == [ev |-> "startWifiManager", msg |-> <<>>]
Command(prefix) == [ev |-> "command", msg |-> prefix]
\* what is recorded of a received command: its first three characters, and
\* "?" when what follows them is not a decimal number
IsNumeral(s) ==
  LET ds == IF s # <<>> /\ Head(s) = "-" THEN Tail(s) ELSE s
  IN  ds # <<>> /\ \A i \in 1..Len(ds) : IsDigit(ds[i])
Received(cmd) ==
  SubSeq(cmd, 1, 3) \o
    (IF (startsWith(cmd, CMD_MOVE_ABS) \/ startsWith(cmd, CMD_MOVE_REL))
        /\ ~IsNumeral(substring(cmd, 3))
     THEN <<"?">> ELSE <<>>)
Relay(pin, v) == [ev |-> "relay", msg |-> <<pin, IF v THEN "HIGH" ELSE "LOW">>]

(* The status message for position p under override flag m                 *)
StatusMsg(p, m) == ltoa(CDiv(p, 1000)) \o (IF m THEN <<".">> ELSE <<>>)

mqttCommunicate(g) ==
  IF ~g.offline /\ g.conn
  THEN [g EXCEPT !.out = Append(@, Publish(StatusMsg(g.blindPos, g.manualMode)))]
  ELSE g

\* startWifiManager(true): the request for the on-demand configuration portal
startWifiManager(g) == [g EXCEPT !.out = Append(@, SetupRequest)]

----------------------------------------------------------------------------
(* Relay driver                                                            *)

\* digitalWrite on a relay pin; a change of the output is recorded in out
digitalWrite(g, pin, v) ==
  LET h == [g EXCEPT ![pin] = v,
                     !.out = IF g[pin] # v THEN Append(@, Relay(pin, v)) ELSE @]
  IN  [h EXCEPT !.bothOn = @ \/ (h.relayL1 /\ h.relayL2)]

\* updateBlindPos without the lower clamp
updateBlindPos_noFloor(g) ==
  LET p == IF g.movementL1
           THEN (IF blindInvertZero THEN g.blindPos + g.moved ELSE g.blindPos - g.moved)
           ELSE (IF blindInvertZero THEN g.blindPos - g.moved ELSE g.blindPos + g.moved)
      q == IF p > blindMaxPos THEN blindMaxPos ELSE p
  IN  mqttCommunicate([g EXCEPT !.blindPos = q])

\* updateBlindPos without the upper clamp
updateBlindPos_noCeiling(g) ==
  LET p == IF g.movementL1
           THEN (IF blindInvertZero THEN g.blindPos + g.moved ELSE g.blindPos - g.moved)
           ELSE (IF blindInvertZero THEN g.blindPos - g.moved ELSE g.blindPos + g.moved)
      q == IF p < 0 THEN 0 ELSE p
  IN  mqttCommunicate([g EXCEPT !.blindPos = q])

updateBlindPos(g) ==
  LET p == IF g.movementL1
           THEN (IF blindInvertZero THEN g.blindPos + g.moved ELSE g.blindPos - g.moved)
           ELSE (IF blindInvertZero THEN g.blindPos - g.moved ELSE g.blindPos + g.moved)
      q == IF p < 0 THEN 0 ELSE IF p > blindMaxPos THEN blindMaxPos ELSE p
  IN  mqttCommunicate([g EXCEPT !.blindPos = q])

\* stopL1 that updates the position whether or not L1 was the moving direction
stopL1_alwaysUpdate(g) ==
  LET h == digitalWrite(g, "relayL1", FALSE)
  IN  IF h.movementProgress /\ h.movementL1
      THEN updateBlindPos([h EXCEPT !.movementProgress = FALSE])
      ELSE updateBlindPos(h)

\* stopL1 that ends the movement whatever its direction
stopL1_anyDirection(g) ==
  LET h == digitalWrite(g, "relayL1", FALSE)
  IN  IF h.movementProgress
      THEN updateBlindPos([h EXCEPT !.movementProgress = FALSE])
      ELSE h

stopL1(g) ==
  LET h == digitalWrite(g, "relayL1", FALSE)
  IN  IF h.movementProgress /\ h.movementL1
      THEN updateBlindPos([h EXCEPT !.movementProgress = FALSE])
      ELSE h

stopL2(g) ==
  LET h == digitalWrite(g, "relayL2", FALSE)
  IN  IF h.movementProgress /\ ~h.movementL1
      THEN updateBlindPos([h EXCEPT !.movementProgress = FALSE])
      ELSE h

\* startL1 that forgets to release the other relay first
startL1_noStop(g, timeout) ==
  LET h == digitalWrite(g, "relayL1", TRUE)
  IN  [h EXCEPT !.movementProgress = TRUE, !.movementL1 = TRUE,
                !.moved = 0,
                !.movementTimeout = IF timeout = 0 THEN blindMaxPos ELSE timeout]

startL1(g, timeout) ==
  LET h == digitalWrite(stopL2(g), "relayL1", TRUE)
  IN  [h EXCEPT !.movementProgress = TRUE, !.movementL1 = TRUE,
                !.moved = 0,
                !.movementTimeout = IF timeout = 0 THEN blindMaxPos ELSE timeout]

startL2(g, timeout) ==
  LET h == digitalWrite(stopL1(g), "relayL2", TRUE)
  IN  [h EXCEPT !.movementProgress = TRUE, !.movementL1 = FALSE,
                !.moved = 0,
                !.movementTimeout = IF timeout = 0 THEN blindMaxPos ELSE timeout]

----------------------------------------------------------------------------
(* Movement supervisor                                                     *)
\* movementLoop that forgets stopL2
movementLoop_onlyL1(g) ==
  IF g.movementProgress /\ (g.moved >= g.movementTimeout)
  THEN stopL1(g)
  ELSE g

\* movementLoop that compares with > (stops one poll late)
movementLoop_late(g) ==
  IF g.movementProgress /\ (g.moved > g.movementTimeout)
  THEN stopL2(stopL1(g))
  ELSE g

movementLoop(g) ==
  IF g.movementProgress /\ (g.moved >= g.movementTimeout)
  THEN stopL2(stopL1(g))
  ELSE g

----------------------------------------------------------------------------
(* Manual switch arbiter.  d is the local manualActivatorDelay, computed   *)
(* once at the top of gpioLoop.                                            *)

\* lockGesture that sets the flags without calling mqttCommunicate
lockGesture_silent(g, d) ==
  IF ~blindDisableManualLock /\ ~g.manualLocked
     /\ d < MANUAL_LOCK_MAX_DELAY_MS /\ g.manualSetupModeCounter = 1
  THEN [g EXCEPT !.manualLocked = TRUE, !.manualMode = TRUE]
  ELSE g

lockGesture(g, d) ==
  IF ~blindDisableManualLock /\ ~g.manualLocked
     /\ d < MANUAL_LOCK_MAX_DELAY_MS /\ g.manualSetupModeCounter = 1
  THEN mqttCommunicate([g EXCEPT !.manualLocked = TRUE, !.manualMode = TRUE])
  ELSE g

\* the S1 branch without the guard on manualLocked
gpioS1_ignoreLock(g, d) ==
  LET a == IF g.manualLockActivatorSwitch # SWITCH_S1
           THEN [g EXCEPT !.manualSetupModeCounter = 0] ELSE g
      b == lockGesture(a, d)
      c == [b EXCEPT !.manualLockActivatorSwitch = SWITCH_S1]
  IN  IF ~c.manualMode
      THEN LET m == mqttCommunicate([c EXCEPT !.manualMode = TRUE,
                                              !.manualActivatorDelay = 0])
           IN  IF blindInvertSwitch
               THEN (IF ~m.movementProgress \/ m.movementL1
                     THEN startL2(m, 0) ELSE m)
               ELSE (IF ~m.movementProgress \/ ~m.movementL1
                     THEN startL1(m, 0) ELSE m)
      ELSE c

\* digitalRead(SWITCH_S1) == LOW
gpioS1(g, d) ==
  LET a == IF g.manualLockActivatorSwitch # SWITCH_S1
           THEN [g EXCEPT !.manualSetupModeCounter = 0] ELSE g
      b == lockGesture(a, d)
  IN  IF ~b.manualLocked
      THEN LET c == [b EXCEPT !.manualLockActivatorSwitch = SWITCH_S1]
           IN  IF ~c.manualMode
               THEN LET m == mqttCommunicate([c EXCEPT !.manualMode = TRUE,
                                                       !.manualActivatorDelay = 0])
                    IN  IF blindInvertSwitch
                        THEN (IF ~m.movementProgress \/ m.movementL1
                              THEN startL2(m, 0) ELSE m)
                        ELSE (IF ~m.movementProgress \/ ~m.movementL1
                              THEN startL1(m, 0) ELSE m)
               ELSE c
      ELSE b

\* the S2 branch without the reset of the tap counter on a change of switch
gpioS2_noReset(g, d) ==
  LET b == lockGesture(g, d)
  IN  IF ~b.manualLocked
      THEN LET c == [b EXCEPT !.manualLockActivatorSwitch = SWITCH_S2]
           IN  IF ~c.manualMode
               THEN LET m == mqttCommunicate([c EXCEPT !.manualMode = TRUE,
                                                       !.manualActivatorDelay = 0])
                    IN  IF blindInvertSwitch
                        THEN (IF ~m.movementProgress \/ ~m.movementL1
                              THEN startL1(m, 0) ELSE m)
                        ELSE (IF ~m.movementProgress \/ m.movementL1
                              THEN startL2(m, 0) ELSE m)
               ELSE c
      ELSE b

\* digitalRead(SWITCH_S1) != LOW and digitalRead(SWITCH_S2) == LOW
gpioS2(g, d) ==
  LET a == IF g.manualLockActivatorSwitch = SWITCH_S1
           THEN [g EXCEPT !.manualSetupModeCounter = 0] ELSE g
      b == lockGesture(a, d)
  IN  IF ~b.manualLocked
      THEN LET c == [b EXCEPT !.manualLockActivatorSwitch = SWITCH_S2]
           IN  IF ~c.manualMode
               THEN LET m == mqttCommunicate([c EXCEPT !.manualMode = TRUE,
                                                       !.manualActivatorDelay = 0])
                    IN  IF blindInvertSwitch
                        THEN (IF ~m.movementProgress \/ ~m.movementL1
                              THEN startL1(m, 0) ELSE m)
                        ELSE (IF ~m.movementProgress \/ m.movementL1
                              THEN startL2(m, 0) ELSE m)
               ELSE c
      ELSE b

\* the release branch with a tap counter that starts over after the request
gpioRelease_resetAfterSetup(g, d) ==
  IF g.manualMode
  THEN LET a == IF d < MANUAL_LOCK_MAX_DELAY_MS
                THEN LET k == [g EXCEPT !.manualSetupModeCounter = @ + 1]
                     IN  IF k.manualSetupModeCounter = MANUAL_SETUP_COUNTER
                         THEN startWifiManager([k EXCEPT !.manualSetupModeCounter = 0])
                         ELSE k
                ELSE [g EXCEPT !.manualSetupModeCounter = 0]
           b == [a EXCEPT !.manualMode = FALSE, !.manualActivatorDelay = 0]
           c == IF b.manualLocked THEN mqttCommunicate(b)
                ELSE IF b.movementProgress THEN stopL2(stopL1(b))
                ELSE mqttCommunicate(b)
       IN  [c EXCEPT !.manualLocked = FALSE]
  ELSE [g EXCEPT !.manualLocked = FALSE]

\* both switches released
gpioRelease(g, d) ==
  IF g.manualMode
  THEN LET a == IF d < MANUAL_LOCK_MAX_DELAY_MS
                THEN LET k == [g EXCEPT !.manualSetupModeCounter = @ + 1]
                     IN  IF k.manualSetupModeCounter = MANUAL_SETUP_COUNTER
                         THEN startWifiManager(k) ELSE k
                ELSE [g EXCEPT !.manualSetupModeCounter = 0]
           b == [a EXCEPT !.manualMode = FALSE, !.manualActivatorDelay = 0]
           c == IF b.manualLocked THEN mqttCommunicate(b)
                ELSE IF b.movementProgress THEN stopL2(stopL1(b))
                ELSE mqttCommunicate(b)
       IN  [c EXCEPT !.manualLocked = FALSE]
  ELSE [g EXCEPT !.manualLocked = FALSE]

\* gpioLoop without the guard on manualActivatorDelay
gpioLoop_noDebounce(g, p1, p2) ==
  LET d == g.manualActivatorDelay
  IN  IF p1 THEN gpioS1(g, d)
      ELSE IF p2 THEN gpioS2(g, d)
      ELSE gpioRelease(g, d)

\* p1, p2: SWITCH_S1, SWITCH_S2 are LOW
gpioLoop(g, p1, p2) ==
  LET d == g.manualActivatorDelay
  IN  IF d > MANUAL_LOCK_MIN_DELAY_MS
      THEN IF p1 THEN gpioS1(g, d)
           ELSE IF p2 THEN gpioS2(g, d)
           ELSE gpioRelease(g, d)
      ELSE g

----------------------------------------------------------------------------
(* Command interpreter                                                     *)

\* autoMoveToPos without the manualMode check
autoMoveToPos_noOverrideCheck(g, newPos) ==
  LET deltaMove == newPos - g.blindPos
  IN  IF blindInvertZero
      THEN (IF deltaMove > 0 THEN startL1(g, deltaMove)
            ELSE IF deltaMove < 0 THEN startL2(g, -deltaMove) ELSE g)
      ELSE (IF deltaMove > 0 THEN startL2(g, deltaMove)
            ELSE IF deltaMove < 0 THEN startL1(g, -deltaMove) ELSE g)

\* autoMoveToPos with the invertZero mapping the wrong way round
autoMoveToPos_swapped(g, newPos) ==
  IF ~g.manualMode
  THEN LET deltaMove == newPos - g.blindPos
       IN  IF blindInvertZero
           THEN (IF deltaMove > 0 THEN startL2(g, deltaMove)
                 ELSE IF deltaMove < 0 THEN startL1(g, -deltaMove) ELSE g)
           ELSE (IF deltaMove > 0 THEN startL1(g, deltaMove)
                 ELSE IF deltaMove < 0 THEN startL2(g, -deltaMove) ELSE g)
  ELSE g

autoMoveToPos(g, newPos) ==
  IF ~g.manualMode
  THEN LET deltaMove == newPos - g.blindPos
       IN  IF blindInvertZero
           THEN (IF deltaMove > 0 THEN startL1(g, deltaMove)
                 ELSE IF deltaMove < 0 THEN startL2(g, -deltaMove) ELSE g)
           ELSE (IF deltaMove > 0 THEN startL2(g, deltaMove)
                 ELSE IF deltaMove < 0 THEN startL1(g, -deltaMove) ELSE g)
  ELSE g

\* a move command that does not stop the movement in progress first
cancelMovement_none(g) == g

\* the stop that precedes a move command
cancelMovement(g) ==
  IF g.movementProgress /\ ~g.manualMode THEN stopL2(stopL1(g)) ELSE g

\* out records, first, which command was received
mqttCallback(g, payload) ==
  LET cmd == payloadCopy(payload)
      r == [g EXCEPT !.out = Append(@, Command(Received(cmd)))]
  IN  IF startsWith(cmd, CMD_SETUP) THEN startWifiManager(r)
      ELSE IF startsWith(cmd, CMD_MOVE_ABS)
      THEN LET c == cancelMovement(r)
               absPos == atoi(substring(cmd, 3))
           IN  autoMoveToPos(c, absPos * 1000)
      ELSE IF startsWith(cmd, CMD_MOVE_REL)
      THEN LET c == cancelMovement(r)
               relPos == atoi(substring(cmd, 3))
           IN  autoMoveToPos(c, c.blindPos + relPos * 1000)
      ELSE r

\* mqttLoop: nothing without a connection; otherwise PubSubClient::loop()
\* delivers at most one received message to the callback
mqttLoop(g, payload) ==
  IF ~g.conn \/ payload = NoMsg THEN g ELSE mqttCallback(g, payload)

\* wifimanagerLoop: offline follows WiFi.status() == WL_CONNECTED
wifimanagerLoop(g, up) == [g EXCEPT !.offline = ~up]

\* the part of an iteration before mqttLoop without gpioLoop: the switches
\* are not sampled before the command is evaluated
loopBeforeMqtt_noSwitches(g, p1, p2, up) == wifimanagerLoop(movementLoop(g), up)

\* one iteration of loop() up to the end of mqttLoop, the handlers in the
\* order of the source (out collects what all of them emit): first gpioLoop,
\* movementLoop and wifimanagerLoop, then mqttLoop unless offline
loopBeforeMqtt(g, p1, p2, up) ==
  LET a == gpioLoop(g, p1, p2)
      b == movementLoop(a)
  IN  wifimanagerLoop(b, up)

loopMqtt(c, payload) == IF ~c.offline THEN mqttLoop(c, payload) ELSE c

loop(g, p1, p2, up, payload) == loopMqtt(loopBeforeMqtt(g, p1, p2, up), payload)

----------------------------------------------------------------------------
(* setup(): the state after boot.  Globals are zero-initialised; setup()   *)
(* reads the switches once (p1, p2) and calls stopL1(); stopL2().          *)
Boot(maxPos, iz, is, dl, p1, p2) ==
  /\ blindMaxPos = maxPos
  /\ blindInvertZero = iz
  /\ blindInvertSwitch = is
  /\ blindDisableManualLock = dl
  /\ blindPos = 0
  /\ manualMode = FALSE
  /\ manualLocked = (p1 \/ p2)
  /\ manualActivatorDelay = 0
  /\ manualLockActivatorSwitch = 0
  /\ manualSetupModeCounter = 0
  /\ moved = 0
  /\ movementTimeout = 0
  /\ movementL1 = FALSE
  /\ movementProgress = FALSE
  /\ offline = TRUE
  /\ relayL1 = FALSE
  /\ relayL2 = FALSE
  /\ pc = "gpio"
  /\ bothOn = FALSE
  /\ out = <<>>

\* the configurations of the model: <<invertZero, invertSwitch, disableManualLock>>
Configs == {<<FALSE, FALSE, FALSE>>, <<TRUE, FALSE, FALSE>>, <<FALSE, TRUE, TRUE>>}
TapConfigs == {<<FALSE, FALSE, FALSE>>, <<FALSE, FALSE, TRUE>>}

Init ==
  /\ \E c \in Configs, p1 \in BOOLEAN, p2 \in BOOLEAN :
       Boot(1000 * MaxPosSec, c[1], c[2], c[3], p1, p2)
  /\ tapLimit = MaxTaps

InitTaps ==
  /\ \E c \in TapConfigs, p1 \in BOOLEAN, p2 \in BOOLEAN :
       Boot(1000 * MaxPosSec, c[1], c[2], c[3], p1, p2)
  /\ tapLimit = MaxSetupTaps

InitRemote ==
  /\ \E c \in Configs, p1 \in BOOLEAN, p2 \in BOOLEAN :
       Boot(1000 * MaxPosSec, c[1], c[2], c[3], p1, p2)
  /\ tapLimit = 0

----------------------------------------------------------------------------
(* The phases of loop()                                                    *)

GpioLoop ==
  /\ pc = "gpio"
  /\ \E p1 \in BOOLEAN, p2 \in BOOLEAN, conn \in BOOLEAN :
       LET r == gpioLoop(G(conn), p1, p2)
       IN  /\ r.manualSetupModeCounter <= tapLimit
           /\ Store(r)
  /\ pc' = "movement"
  /\ UNCHANGED <<config, tapLimit>>

MovementLoop ==
  /\ pc = "movement"
  /\ \E conn \in BOOLEAN : Store(movementLoop(G(conn)))
  /\ pc' = "wifi"
  /\ UNCHANGED <<config, tapLimit>>

\* WiFi, once connected, stays connected; a broker that is out of reach
\* later on is the answer conn = FALSE of the other handlers
WifimanagerLoop ==
  /\ pc = "wifi"
  /\ \E up \in (IF offline THEN BOOLEAN ELSE {TRUE}) :
       Store(wifimanagerLoop(G(FALSE), up))
  /\ pc' = IF offline' THEN "delay" ELSE "mqtt"
  /\ UNCHANGED <<config, tapLimit>>

MqttLoop ==
  /\ pc = "mqtt"
  /\ \E conn \in BOOLEAN, payload \in Payloads \cup {NoMsg} :
       Store(mqttLoop(G(conn), payload))
  /\ pc' = "delay"
  /\ UNCHANGED <<config, tapLimit>>

\* the time dt a loop iteration takes: at least delay(LOOP_DELAY_MS) unless a
\* movement is in progress
Delay ==
  /\ pc = "delay"
  /\ \E dt \in Dts :
       /\ movementProgress \/ dt >= LOOP_DELAY_MS
       /\ manualActivatorDelay' =
            IF manualActivatorDelay + dt > MANUAL_LOCK_MAX_DELAY_MS
            THEN MANUAL_LOCK_MAX_DELAY_MS
            ELSE manualActivatorDelay + dt
       /\ moved' = IF movementProgress THEN moved + dt ELSE 0
  /\ movementTimeout' = IF movementProgress THEN movementTimeout ELSE 0
  /\ movementL1' = (movementProgress /\ movementL1)
  /\ pc' = "gpio"
  /\ out' = <<>>
  /\ UNCHANGED <<config, tapLimit, blindPos, manualMode, manualLocked,
                 manualLockActivatorSwitch, manualSetupModeCounter,
                 movementProgress, offline, relayL1, relayL2, bothOn>>

Next == GpioLoop \/ MovementLoop \/ WifimanagerLoop \/ MqttLoop \/ Delay

Spec == Init /\ [][Next]_vars

\* the same program, with the environment that taps up to MaxSetupTaps times
SpecTaps == InitTaps /\ [][Next]_vars

\* the same program, with the environment that holds every press for at least
\* MANUAL_LOCK_MAX_DELAY_MS (no taps): where the remote commands are examined
SpecRemote == InitRemote /\ [][Next]_vars

----------------------------------------------------------------------------
(* Vocabulary of the properties                                            *)

Emitted(e) == \E i \in 1..Len(out) : out[i] = e
EmittedBefore(e, f) == \E i \in 1..Len(out), j \in 1..Len(out) :
                          i < j /\ out[i] = e /\ out[j] = f
Published == \E i \in 1..Len(out) : out[i].ev = "publish"
CountOf(e, seq) == Cardinality({i \in 1..Len(seq) : seq[i] = e})

\* L1 is the relay that moves toward position 0 (L2 the one toward blindMaxPos)
TowardZeroL1 == ~blindInvertZero

\* the movement state and the position of a record of globals
MovementState(g) == <<g.relayL1, g.relayL2, g.movementProgress, g.movementL1,
                      g.moved, g.movementTimeout>>
NoPublish(seq) == \A i \in 1..Len(seq) : seq[i].ev # "publish"
OnlyCommands(seq) == \A i \in 1..Len(seq) : seq[i].ev = "command"
Last(seq) == seq[Len(seq)]
Clamp(x) == IF x < 0 THEN 0 ELSE IF x > blindMaxPos THEN blindMaxPos ELSE x

\* the move commands among the payloads
MovePayloads == {p \in Payloads : startsWith(p, CMD_MOVE_ABS) \/ startsWith(p, CMD_MOVE_REL)}
mva(n) == CMD_MOVE_ABS \o Numeral(n)
mvr(n) == CMD_MOVE_REL \o Numeral(n)

\* By how much the poll that detects a deadline can be late: less than one
\* loop iteration.
Latencies == {d \in Dts : \E e \in Dts : d < e}

\* g after the time m has run on its movement, nothing else having happened
\* (gpioLoop without a press, mqttLoop without a message change nothing then)
After(g, m) == [g EXCEPT !.moved = m, !.out = <<>>]

\* only the relay toward zero / toward blindMaxPos is energized in g
OnlyTowardZero(g) == /\ g.movementProgress /\ g.movementL1 = TowardZeroL1
                     /\ g.relayL1 = TowardZeroL1 /\ g.relayL2 = ~TowardZeroL1
OnlyTowardMax(g) == /\ g.movementProgress /\ g.movementL1 # TowardZeroL1
                    /\ g.relayL1 # TowardZeroL1 /\ g.relayL2 = TowardZeroL1
AllOff(g) == ~g.relayL1 /\ ~g.relayL2 /\ ~g.movementProgress

----------------------------------------------------------------------------
(* C1  Mutual exclusion: relay L1 and relay L2 are never both energized,   *)
(* neither in a state between two handlers nor at any instant inside one   *)
(* (bothOn records every digitalWrite that leaves both outputs HIGH).      *)
MutualExclusion == ~bothOn /\ ~(relayL1 /\ relayL2)

\* a handler has switched directly from L2 to L1: L2 went LOW, then L1 HIGH
MutualExclusionWitness ==
  /\ EmittedBefore(Relay("relayL2", FALSE), Relay("relayL1", TRUE))
  /\ relayL1 /\ ~relayL2

(* C2  Clamp invariant: 0 <= blindPos <= blindMaxPos in every state.       *)
ClampInvariant == 0 <= blindPos /\ blindPos <= blindMaxPos

\* a movement toward zero that ran for longer than the whole travel has just
\* been stopped, and the position is 0
ClampWitness ==
  /\ pc = "wifi" /\ ~movementProgress
  /\ Emitted(Relay(IF TowardZeroL1 THEN "relayL1" ELSE "relayL2", FALSE))
  /\ movementL1 = TowardZeroL1
  /\ moved > blindMaxPos
  /\ blindPos = 0

(* C3  Override blocks remote control: with manualMode set, mqttLoop given *)
(* any mva or mvr command leaves the relays, the movement state, the       *)
(* position and every other global as they were (all it emits is the       *)
(* record of the command: nothing is kept for later); and the tick that    *)
(* ends the override (both switches released) energizes no relay and       *)
(* starts no movement, so the dropped command is not replayed.             *)
OverrideBlocksRemote ==
  /\ (pc = "mqtt" /\ manualMode) =>
       \A conn \in BOOLEAN, payload \in MovePayloads :
         LET g == G(conn)
             r == mqttLoop(g, payload)
         IN  /\ MovementState(r) = MovementState(g)
             /\ r.blindPos = g.blindPos
             /\ r = [g EXCEPT !.out = r.out]
             /\ OnlyCommands(r.out)
  /\ (pc = "gpio" /\ manualMode) =>
       \A conn \in BOOLEAN :
         LET g == G(conn)
             r == gpioLoop(g, FALSE, FALSE)
         IN  /\ r.relayL1 => g.relayL1
             /\ r.relayL2 => g.relayL2
             /\ r.movementProgress => MovementState(r) = MovementState(g)

\* a move command has been received while a switch was driving the blind
OverrideBlocksRemoteWitness ==
  /\ pc = "delay" /\ manualMode /\ ~manualLocked
  /\ Emitted(Command(CMD_MOVE_ABS))
  /\ movementProgress /\ relayL1 /\ blindPos > 0

(* C4  Lock gesture: the tick in which the lock is set (a press within     *)
(* 500 ms of the release, tap counter 1, lock not disabled) ends with the  *)
(* override active, the lock flag set, no relay energized, and every       *)
(* status it publishes carrying the '.' suffix.                            *)
LockGesturePureLock ==
  [][(pc = "gpio" /\ ~manualLocked /\ manualLocked') =>
       /\ manualMode'
       /\ ~relayL1' /\ ~relayL2'
       /\ \A i \in 1..Len(out') :
            out'[i].ev = "publish" => Last(out'[i].msg) = "."]_vars

(* C5 as stated: the request is issued at the fifth quick release of a run *)
(* and at no other tick, exactly once, and the tap counter is 0 after      *)
(* that tick.                                                              *)
SetupGestureResets ==
  [][pc = "gpio" =>
       LET n == CountOf(SetupRequest, out')
       IN  /\ n = (IF manualMode /\ ~manualMode'
                      /\ manualSetupModeCounter = MANUAL_SETUP_COUNTER - 1
                      /\ manualActivatorDelay < MANUAL_LOCK_MAX_DELAY_MS
                   THEN 1 ELSE 0)
           /\ (n = 1 => manualSetupModeCounter' = 0)]_vars

(* C5  Setup gesture, amended: gpioLoop issues the request exactly once,   *)
(* in the release tick that takes the tap counter from 4 to 5, and in no   *)
(* other tick; the counter is left at 5, and further quick taps go on      *)
(* counting from it (6, 7, ...) without another request, until a slow      *)
(* release or a press of the other switch sets the counter to 0.           *)
SetupGestureOnce ==
  [][pc = "gpio" =>
       LET n == CountOf(SetupRequest, out')
       IN  /\ n = (IF manualSetupModeCounter = MANUAL_SETUP_COUNTER - 1
                      /\ manualSetupModeCounter' = MANUAL_SETUP_COUNTER
                   THEN 1 ELSE 0)
           /\ (n = 1 => manualMode /\ ~manualMode')
           /\ (manualSetupModeCounter >= MANUAL_SETUP_COUNTER =>
                 manualSetupModeCounter' \in
                   {0, manualSetupModeCounter, manualSetupModeCounter + 1})
           /\ (manualMode /\ ~manualMode'
               /\ manualActivatorDelay < MANUAL_LOCK_MAX_DELAY_MS =>
                 manualSetupModeCounter' = manualSetupModeCounter + 1)]_vars

\* the sixth quick release of a run: the counter went on from 5, no request
SetupGestureOnceWitness ==
  /\ pc = "movement"
  /\ manualSetupModeCounter = MANUAL_SETUP_COUNTER + 1
  /\ ~manualMode /\ manualActivatorDelay = 0
  /\ ~Emitted(SetupRequest)

(* C6  Idempotent stop: in every reachable state, stopL1 called while L1   *)
(* is not the active direction (idle, or L2 moving) leaves                 *)
(* movementProgress, movementL1, the movement clock, movementTimeout and   *)
(* blindPos as they were, publishes nothing and leaves relay L2 as it was; *)
(* the same for stopL2 with the roles exchanged; and a stop called twice   *)
(* in a row gives the state (and the outputs) that one call gives.         *)
IdempotentStop ==
  \A conn \in BOOLEAN :
    LET g == G(conn)
        MovementFields(h) == <<h.movementProgress, h.movementL1, h.moved,
                               h.movementTimeout, h.blindPos>>
    IN  /\ ~(g.movementProgress /\ g.movementL1) =>
             LET h == stopL1(g)
             IN  /\ MovementFields(h) = MovementFields(g)
                 /\ NoPublish(h.out)
                 /\ h.relayL2 = g.relayL2
        /\ ~(g.movementProgress /\ ~g.movementL1) =>
             LET h == stopL2(g)
             IN  /\ MovementFields(h) = MovementFields(g)
                 /\ NoPublish(h.out)
                 /\ h.relayL1 = g.relayL1
        /\ stopL1(stopL1(g)) = stopL1(g)
        /\ stopL2(stopL2(g)) = stopL2(g)

\* movementLoop has just called stopL1 (L2 was the moving direction: nothing
\* happened) and then stopL2, which ended the movement and published
IdempotentStopWitness ==
  /\ pc = "wifi" /\ ~movementProgress /\ ~movementL1
  /\ moved >= movementTimeout /\ movementTimeout > 0
  /\ out = <<Relay("relayL2", FALSE), Publish(StatusMsg(blindPos, manualMode))>>

(* C7  Full-travel command: with manualMode clear, mva0 received at the    *)
(* position p > 0 (the position once a movement in progress has been       *)
(* stopped and accounted, which the command does first) energizes the      *)
(* relay toward zero only, with movementTimeout = p and the movement clock *)
(* at 0; the relay stays on while the clock is below p, and the poll that  *)
(* finds the clock at p or later switches both relays off with the         *)
(* position 0.  At p = 0 no relay is energized.                            *)
FullTravel ==
  (pc = "mqtt" /\ ~manualMode) =>
    LET g == G(TRUE)
        p == cancelMovement(g).blindPos
        r == mqttLoop(g, mva(0))
    IN  IF p > 0
        THEN /\ OnlyTowardZero(r)
             /\ r.movementTimeout = p /\ r.moved = 0 /\ r.blindPos = p
             /\ movementLoop(After(r, p - 1)) = After(r, p - 1)
             /\ \A d \in Latencies :
                  LET e == movementLoop(After(r, p + d))
                  IN  AllOff(e) /\ e.blindPos = 0
        ELSE AllOff(r) /\ r.blindPos = 0

\* a movement toward zero with a timeout only mva0 produces (the position,
\* not a multiple of 1000 and less than the whole travel) has ended at 0
FullTravelWitness ==
  /\ pc = "wifi" /\ ~manualMode /\ ~movementProgress
  /\ movementL1 = TowardZeroL1
  /\ movementTimeout = 250 /\ moved >= movementTimeout
  /\ blindPos = 0
  /\ Emitted(Publish(<<"0">>))

(* C8  Timeout overshoot recovery: with manualMode clear, the mva command  *)
(* for blindMaxPos + 1000 received at the position p energizes the relay   *)
(* toward blindMaxPos only, with movementTimeout = blindMaxPos - p + 1000; *)
(* the relay stays on while the movement clock is below that, and when the *)
(* poll at or after the deadline switches it off, the position is exactly  *)
(* blindMaxPos.                                                            *)
OvershootRecovery ==
  (pc = "mqtt" /\ ~manualMode) =>
    LET g == G(TRUE)
        p == cancelMovement(g).blindPos
        r == mqttLoop(g, mva(MaxPosSec + 1))
        t == blindMaxPos - p + 1000
    IN  /\ OnlyTowardMax(r)
        /\ r.movementTimeout = t /\ r.moved = 0 /\ r.blindPos = p
        /\ \A m \in {0, blindMaxPos - p, t - 1} :
             movementLoop(After(r, m)) = After(r, m)
        /\ \A d \in Latencies :
             LET e == movementLoop(After(r, t + d))
             IN  AllOff(e) /\ e.blindPos = blindMaxPos

\* a movement toward blindMaxPos with a timeout beyond the whole travel has
\* run to its deadline and ended at blindMaxPos
OvershootRecoveryWitness ==
  /\ pc = "wifi" /\ ~manualMode /\ ~movementProgress
  /\ movementL1 # TowardZeroL1
  /\ movementTimeout > blindMaxPos /\ moved >= movementTimeout
  /\ blindPos = blindMaxPos
  /\ Emitted(Publish(ltoa(MaxPosSec)))

\* what C9 says of the start of an mva command for the target t received at
\* the position p # t (in the record r that mqttLoop returns): exactly one
\* relay, L2 for t > p and L1 for t < p when invertZero is false, swapped
\* when it is true, with the timeout |t - p| and the movement clock at 0
InRangeStart(r, p, t) ==
  /\ r.movementProgress
  /\ r.movementL1 = ((t < p) # blindInvertZero)
  /\ r.relayL1 = r.movementL1 /\ r.relayL2 = ~r.movementL1
  /\ r.movementTimeout = (IF t > p THEN t - p ELSE p - t)
  /\ r.moved = 0 /\ r.blindPos = p

(* C9 as stated: for every target t in [0, blindMaxPos] other than the     *)
(* position p, the mva command starts the movement above, and the poll     *)
(* that finds the deadline reached, however late it comes, leaves the      *)
(* position equal to t and publishes t/1000 without suffix.                *)
InRangeMoveExact ==
  (pc = "mqtt" /\ ~manualMode) =>
    \A n \in 0..MaxPosSec :
      LET g == G(TRUE)
          p == cancelMovement(g).blindPos
          t == 1000 * n
          r == mqttLoop(g, mva(n))
      IN  t # p =>
            /\ InRangeStart(r, p, t)
            /\ \A d \in Latencies :
                 LET e == movementLoop(After(r, r.movementTimeout + d))
                 IN  /\ AllOff(e)
                     /\ e.blindPos = t
                     /\ Last(e.out) = Publish(ltoa(n))

(* C9  In-range absolute move, amended: for every target t in              *)
(* [0, blindMaxPos] other than the position p, the mva command energizes   *)
(* exactly one relay (L2 for t > p, L1 for t < p; swapped by invertZero)   *)
(* with the timeout |t - p|; the relay stays on while the movement clock   *)
(* is below the timeout; the poll that finds the deadline reached, d late, *)
(* switches the relay off with the position t + d (t > p) or t - d         *)
(* (t < p), clamped into [0, blindMaxPos], and publishes that position     *)
(* divided by 1000 (rounded down), without suffix.  The position is t, and *)
(* the status t/1000, when the poll comes exactly at the deadline.         *)
InRangeMove ==
  (pc = "mqtt" /\ ~manualMode) =>
    \A n \in 0..MaxPosSec :
      LET g == G(TRUE)
          p == cancelMovement(g).blindPos
          t == 1000 * n
          r == mqttLoop(g, mva(n))
      IN  t # p =>
            /\ InRangeStart(r, p, t)
            /\ movementLoop(After(r, r.movementTimeout - 1))
                 = After(r, r.movementTimeout - 1)
            /\ \A d \in Latencies :
                 LET e == movementLoop(After(r, r.movementTimeout + d))
                     q == Clamp(IF t > p THEN t + d ELSE t - d)
                 IN  /\ AllOff(e)
                     /\ e.blindPos = q
                     /\ Last(e.out) = Publish(ltoa(q \div 1000))
                     /\ d = 0 => e.blindPos = t /\ Last(e.out) = Publish(ltoa(n))

\* an mva command for 1000 received at 250 (the only source of a timeout of
\* 750 toward blindMaxPos) was found expired 250 late: position 1250, status "1"
InRangeMoveWitness ==
  /\ pc = "wifi" /\ ~manualMode /\ ~movementProgress
  /\ movementL1 # TowardZeroL1
  /\ movementTimeout = 750 /\ moved = 1000
  /\ blindPos = 1250
  /\ Emitted(Publish(<<"1">>))

(* C10  Manual press pre-empts remote movement: the tick that detects a    *)
(* press and enters manual drive (not the lock gesture) ends with the      *)
(* relay mapped to the pressed switch energized alone (S1 -> L1, S2 -> L2, *)
(* swapped by invertSwitch), with any remote command that was running      *)
(* terminated (the movement in force is the manual one: started in this    *)
(* tick, with the full-travel timeout), and with every status it publishes *)
(* carrying the '.' suffix.                                                *)
ManualPressPreempts ==
  [][(pc = "gpio" /\ ~manualMode /\ manualMode' /\ ~manualLocked') =>
       LET l1 == (manualLockActivatorSwitch' = SWITCH_S1) # blindInvertSwitch
       IN  /\ relayL1' = l1 /\ relayL2' = ~l1
           /\ movementProgress' /\ movementL1' = l1
           /\ moved' = 0 /\ movementTimeout' = blindMaxPos
           /\ \A i \in 1..Len(out') :
                out'[i].ev = "publish" => Last(out'[i].msg) = "."]_vars

(* C11  Release ends the override: the tick of gpioLoop that detects the   *)
(* release while the override is active ends with both relays              *)
(* de-energized and no movement in progress (a remote movement from before *)
(* the press is not running any more), with the override flag and the lock *)
(* flag clear (remote commands are accepted again), and every status it    *)
(* publishes is without the '.' suffix.                                    *)
ReleaseEndsOverride ==
  [][(pc = "gpio" /\ manualMode /\ ~manualMode') =>
       /\ ~relayL1' /\ ~relayL2' /\ ~movementProgress'
       /\ ~manualLocked'
       /\ \A i \in 1..Len(out') :
            out'[i].ev = "publish" => Last(out'[i].msg) # "."]_vars

(* C12  Switch held indefinitely: while a switch is held in manual drive   *)
(* (override set, not locked), the relay is de-energized by the timeout    *)
(* path of movementLoop only at the end of the full travel: the tick that  *)
(* does it leaves no relay energized, leaves the position at 0 or at       *)
(* blindMaxPos, publishes it with the '.' suffix, and leaves the override  *)
(* flag set.                                                               *)
SwitchHeldTimeout ==
  [][(pc = "movement" /\ manualMode /\ ~manualLocked
      /\ movementProgress /\ ~movementProgress') =>
       /\ ~relayL1' /\ ~relayL2'
       /\ manualMode'
       /\ movementTimeout = blindMaxPos
       /\ blindPos' \in {0, blindMaxPos}
       /\ \A i \in 1..Len(out') :
            out'[i].ev = "publish" =>
              out'[i].msg \in {<<"0", ".">>, ltoa(CDiv(blindMaxPos, 1000)) \o <<".">>}]_vars

\* move commands whose numeric part is not a number, or is cut by the copy
\* of 9 characters
MalformedAbs == {CMD_MOVE_ABS, CMD_MOVE_ABS \o <<"x">>, CMD_MOVE_ABS \o <<"-">>,
                 CMD_MOVE_ABS \o <<"x", "1">>,
                 CMD_MOVE_ABS \o <<"0", "0", "0", "0", "0", "0", "1">>}
MalformedRel == {CMD_MOVE_REL, CMD_MOVE_REL \o <<"x">>, CMD_MOVE_REL \o <<"-">>,
                 CMD_MOVE_REL \o <<"x", "1">>,
                 CMD_MOVE_REL \o <<"0", "0", "0", "0", "0", "0", "1">>}

\* a record of globals without the note of which command was received
Effect(r) == [r EXCEPT !.out = SelectSeq(@, LAMBDA e : e.ev # "command")]

ElapsedPos ==
  IF movementProgress
  THEN Clamp(IF movementL1 = TowardZeroL1 THEN blindPos - moved ELSE blindPos + moved)
  ELSE blindPos

\* the movement state that a command for the target t gives at the position
\* p: idle for t = p, otherwise only the relay for the sign of t - p, with
\* the timeout |t - p| and the movement clock at 0
FreshMove(r, p, t) ==
  /\ r.blindPos = p
  /\ IF t = p THEN AllOff(r) ELSE InRangeStart(r, p, t)

(* C14  Latest remote request wins: with the override inactive, an mva or  *)
(* mvr command first stops a movement in progress, which sets the position *)
(* to p, the old position changed by the elapsed time and clamped          *)
(* (published when connected); the movement state it leaves is the one for *)
(* the target at p whatever was running before: the target is 1000 n for   *)
(* mva n and p + 1000 n for mvr n, idle when the target is p (mvr0 leaves  *)
(* both relays de-energized), otherwise the relay for the sign of the      *)
(* delta with the timeout |delta| and the clock at 0; no other global      *)
(* changes, so nothing of the earlier command remains.                     *)
LatestRequestWins ==
  (pc = "mqtt" /\ ~manualMode) =>
    LET g == G(TRUE)
        p == ElapsedPos
    IN  /\ \A n \in 0..(MaxPosSec + 1) : FreshMove(mqttLoop(g, mva(n)), p, 1000 * n)
        /\ \A n \in -1..1 : FreshMove(mqttLoop(g, mvr(n)), p, p + 1000 * n)
        /\ \A payload \in MovePayloads :
             LET r == mqttLoop(g, payload)
             IN  /\ r = [g EXCEPT !.out = r.out, !.blindPos = r.blindPos,
                                  !.relayL1 = r.relayL1, !.relayL2 = r.relayL2,
                                  !.movementProgress = r.movementProgress,
                                  !.movementL1 = r.movementL1, !.moved = r.moved,
                                  !.movementTimeout = r.movementTimeout]
                 /\ movementProgress =>
                       \E i \in 1..Len(r.out) : r.out[i] = Publish(ltoa(p \div 1000))

\* an mvr command has replaced a movement on L2 by one on L1: L2 was stopped
\* and its travel accounted and published, then L1 was started
LatestRequestWinsWitness ==
  /\ pc = "delay" /\ ~manualMode
  /\ Emitted(Command(CMD_MOVE_REL))
  /\ EmittedBefore(Relay("relayL2", FALSE), Relay("relayL1", TRUE))
  /\ Published
  /\ movementProgress /\ movementL1 /\ moved = 0 /\ movementTimeout = 1000

Held(g, dt) ==
  [g EXCEPT !.manualActivatorDelay =
              IF @ + dt > MANUAL_LOCK_MAX_DELAY_MS THEN MANUAL_LOCK_MAX_DELAY_MS ELSE @ + dt,
            !.moved = IF g.movementProgress THEN @ + dt ELSE @,
            !.out = <<>>]

(* C16  Tap counter rule: a release that comes 500 ms or more after the    *)
(* prior release resets the tap counter.  Stated at the start of an        *)
(* iteration in which the switches have been released for 500 ms or more   *)
(* after at least one counted tap: when the same switch is then pressed    *)
(* and released one loop iteration of 250 ms later, the counter is 0 after *)
(* that release (the short press does not add to the earlier taps).        *)
SlowTapsDoNotAccumulate ==
  (pc = "gpio" /\ ~manualMode /\ ~manualLocked
   /\ manualSetupModeCounter >= 1
   /\ manualActivatorDelay >= MANUAL_LOCK_MAX_DELAY_MS) =>
    \A conn \in BOOLEAN :
      LET s1 == manualLockActivatorSwitch = SWITCH_S1
          pressed == gpioLoop(G(conn), s1, ~s1)
          released == gpioLoop(Held(movementLoop(pressed), 250), FALSE, FALSE)
      IN  released.manualSetupModeCounter = 0

\* times within the window of MANUAL_LOCK_MIN_DELAY_MS, its end included
DebounceWindow == {0, 1, MANUAL_LOCK_MIN_DELAY_MS - 1, MANUAL_LOCK_MIN_DELAY_MS}

(* C17  Debounce guard: while no more than 200 ms have passed since the    *)
(* time stamp of the last release (or press), gpioLoop changes nothing,    *)
(* whatever the switch inputs are: the override flag, the lock flag, the   *)
(* tap counter, the activating switch, both relays and every other global  *)
(* stay as they are and nothing is emitted.                                *)
DebounceGuard ==
  (pc = "gpio" /\ manualActivatorDelay <= MANUAL_LOCK_MIN_DELAY_MS) =>
    \A p1 \in BOOLEAN, p2 \in BOOLEAN, conn \in BOOLEAN :
      /\ gpioLoop(G(conn), p1, p2) = G(conn)
      /\ \A d \in {t \in DebounceWindow : t >= manualActivatorDelay} :
           LET g == [G(conn) EXCEPT !.manualActivatorDelay = d]
           IN  gpioLoop(g, p1, p2) = g

\* gpioLoop has run inside the window after the release of a first tap,
\* while a remote movement accepted meanwhile is running, and left all as it was
DebounceGuardWitness ==
  /\ pc = "movement" /\ ~manualMode /\ ~manualLocked
  /\ manualActivatorDelay = 0
  /\ manualSetupModeCounter = 1
  /\ movementProgress /\ out = <<>>

(* C18  Position changes only on relay de-energize: a step changes         *)
(* blindPos only if a movement was in progress and the step switches the   *)
(* relay of that movement off; and every step that does so leaves blindPos *)
(* at the old position plus or minus the elapsed time of the movement      *)
(* (by direction and invertZero), clamped.  Every other step (activation,  *)
(* press without change of direction, rejected command, idle tick, passing *)
(* of time) leaves blindPos as it was.                                     *)
PositionOnlyOnStop ==
  [][LET active == IF movementL1 THEN "relayL1" ELSE "relayL2"
         stopped == /\ movementProgress
                    /\ \E i \in 1..Len(out') : out'[i] = Relay(active, FALSE)
     IN  /\ blindPos' # blindPos => stopped
         /\ stopped => blindPos' = ElapsedPos]_vars

\* a press has reversed a running movement: L1 was switched off, its travel
\* accounted in the position, and L2 switched on
PositionOnlyOnStopWitness ==
  /\ pc = "movement" /\ manualMode /\ ~manualLocked
  /\ EmittedBefore(Relay("relayL1", FALSE), Relay("relayL2", TRUE))
  /\ blindPos > 0 /\ blindPos < blindMaxPos /\ blindPos % 1000 # 0
  /\ moved = 0 /\ movementTimeout = blindMaxPos

(* C19  Timeout supervision: an energized relay is always the relay of the *)
(* movement in progress; after movementLoop, if a relay is energized then  *)
(* the elapsed time of the movement is below movementTimeout; movementLoop *)
(* leaves a movement alone while its elapsed time is below the timeout and *)
(* de-energizes both relays at the first poll that finds it reached;       *)
(* startL1/startL2 set movementTimeout to the requested duration, or to    *)
(* blindMaxPos when that is 0; and no timeout in force exceeds the largest *)
(* duration a command can request, so no relay stays energized unbounded.  *)
TimeoutSupervision ==
  /\ (relayL1 \/ relayL2) =>
       movementProgress /\ relayL1 = movementL1 /\ relayL2 = ~movementL1
  /\ (pc = "wifi" /\ (relayL1 \/ relayL2)) => moved < movementTimeout
  /\ movementProgress =>
       movementTimeout >= 1 /\ movementTimeout <= 1000 * (MaxPosSec + 1)
  /\ (pc = "movement" /\ movementProgress) =>
       \A conn \in BOOLEAN :
         IF moved >= movementTimeout
         THEN AllOff(movementLoop(G(conn)))
         ELSE movementLoop(G(conn)) = G(conn)
  /\ pc \in {"gpio", "mqtt"} =>
       \A t \in {0, 1, 1000} :
         LET a == startL1(G(TRUE), t)
             b == startL2(G(TRUE), t)
             want == IF t = 0 THEN blindMaxPos ELSE t
         IN  /\ a.movementTimeout = want /\ a.moved = 0
             /\ b.movementTimeout = want /\ b.moved = 0

\* a switch was held through the whole travel: the poll found the elapsed
\* time equal to the full-travel timeout and switched the relay off
TimeoutSupervisionWitness ==
  /\ pc = "wifi" /\ manualMode /\ ~manualLocked /\ ~movementProgress
  /\ movementTimeout = blindMaxPos /\ moved = movementTimeout
  /\ blindPos = blindMaxPos
  /\ Emitted(Relay(IF TowardZeroL1 THEN "relayL2" ELSE "relayL1", FALSE))

\* the status messages among the events of a record of globals
Publishes(r) == SelectSeq(r.out, LAMBDA e : e.ev = "publish")

\* r, the globals a handler leaves, against the globals it started from:
\* if blindPos or manualMode changed then r published, and the last message
\* r published is the status of r
Follows(r) ==
  LET pubs == Publishes(r)
  IN  /\ (r.blindPos # blindPos \/ r.manualMode # manualMode) => pubs # <<>>
      /\ pubs # <<>> => Last(pubs) = Publish(StatusMsg(r.blindPos, r.manualMode))

(* C20  Status follows state: with WiFi up and the broker connected, each  *)
(* handler of an iteration of loop() that changes blindPos or manualMode   *)
(* publishes at least once, and the last message a handler publishes is    *)
(* the decimal blindPos / 1000 of the position it leaves, followed by "."  *)
(* exactly when it leaves manualMode set.  Hence an iteration that changes *)
(* either value publishes, and the last message published in it is the     *)
(* status of the state at its end.                                         *)
StatusFollowsState ==
  ~offline =>
    /\ pc = "gpio" =>
         \A p1 \in BOOLEAN, p2 \in BOOLEAN : Follows(gpioLoop(G(TRUE), p1, p2))
    /\ pc = "movement" => Follows(movementLoop(G(TRUE)))
    /\ pc = "wifi" => Follows(wifimanagerLoop(G(TRUE), TRUE))
    /\ pc = "mqtt" =>
         \A payload \in Payloads \cup {NoMsg} : Follows(mqttLoop(G(TRUE), payload))

\* the lock gesture has just set manualMode at a position other than 0 and
\* published that position followed by "."
StatusFollowsStateWitness ==
  /\ pc = "movement" /\ ~offline /\ manualLocked /\ manualMode
  /\ ~movementProgress /\ blindPos >= 1000
  /\ out = <<Publish(StatusMsg(blindPos, TRUE))>>

\* the relay that blindInvertSwitch maps to the switch read as asserted:
\* S1 when p1 (S1 is checked first), otherwise S2
MappedIsL1(p1) == p1 # blindInvertSwitch

(* C21  Manual drive direction matches the pressed switch: at the end of   *)
(* the switch and timeout handling of an iteration that processed the      *)
(* switch inputs (manualActivatorDelay above MANUAL_LOCK_MIN_DELAY_MS)     *)
(* with a switch asserted, if manualMode is set and a relay is energized   *)
(* then the energized relay is the one blindInvertSwitch maps to the       *)
(* asserted switch, S1 taking precedence when both are asserted.           *)
ManualDriveMatchesSwitch ==
  (pc = "gpio" /\ manualActivatorDelay > MANUAL_LOCK_MIN_DELAY_MS) =>
    \A p1 \in BOOLEAN, p2 \in BOOLEAN, conn \in BOOLEAN :
      (p1 \/ p2) =>
        LET r == movementLoop(gpioLoop(G(conn), p1, p2))
        IN  (r.manualMode /\ (r.relayL1 \/ r.relayL2)) =>
              /\ r.relayL1 = MappedIsL1(p1)
              /\ r.relayL2 = ~MappedIsL1(p1)

\* the switch that gpioLoop acts on when p1, p2 are read: S1 is checked first
ReadSwitch(p1) == IF p1 THEN SWITCH_S1 ELSE SWITCH_S2

(* C22  Lock gesture needs the same switch: gpioLoop sets manualLocked     *)
(* only when the switch it reads asserted is the switch of the preceding   *)
(* tap (manualLockActivatorSwitch, with the tap counter at 1); and when    *)
(* the asserted switch is another one than the switch of the preceding tap *)
(* or press, the tap counter is 0 afterwards and the lock is not set,      *)
(* however short the time since the tap: if the override was inactive the  *)
(* press sets it and the relay mapped to the newly pressed switch is the   *)
(* one energized, with the full-travel timeout when nothing was moving.    *)
LockNeedsSameSwitch ==
  (pc = "gpio" /\ ~manualLocked) =>
    \A p1 \in BOOLEAN, p2 \in BOOLEAN :
      (p1 \/ p2) =>
        LET sw == ReadSwitch(p1)
            r == gpioLoop(G(TRUE), p1, p2)
        IN  /\ r.manualLocked =>
                 /\ manualLockActivatorSwitch = sw
                 /\ manualSetupModeCounter = 1
                 /\ r.manualLockActivatorSwitch = sw
            /\ (manualActivatorDelay > MANUAL_LOCK_MIN_DELAY_MS
                /\ manualLockActivatorSwitch # sw) =>
                 /\ r.manualSetupModeCounter = 0
                 /\ ~r.manualLocked
                 /\ r.manualLockActivatorSwitch = sw
                 /\ ~manualMode =>
                      /\ r.manualMode /\ r.movementProgress
                      /\ r.relayL1 = MappedIsL1(p1)
                      /\ r.relayL2 = ~MappedIsL1(p1)
                      /\ ~movementProgress =>
                           r.movementTimeout = blindMaxPos /\ r.moved = 0

\* S1 was tapped (counter 1, lock enabled) and, within the time of the lock
\* gesture, S2 is read asserted: the press starts a drive and sets no lock
LockNeedsSameSwitchWitness ==
  /\ pc = "gpio" /\ ~manualMode /\ ~manualLocked /\ ~blindDisableManualLock
  /\ manualSetupModeCounter = 1 /\ manualLockActivatorSwitch = SWITCH_S1
  /\ manualActivatorDelay > MANUAL_LOCK_MIN_DELAY_MS
  /\ manualActivatorDelay < MANUAL_LOCK_MAX_DELAY_MS
  /\ gpioLoop(G(TRUE), TRUE, FALSE).manualLocked
  /\ LET r == gpioLoop(G(TRUE), FALSE, TRUE)
     IN  r.manualMode /\ ~r.manualLocked /\ r.manualSetupModeCounter = 0

\* a switch was asserted when setup() ran and no iteration has yet processed
\* both switches released: setup() is the only place that sets manualLocked
\* without manualMode, and the release branch clears both
HeldSinceBoot == manualLocked /\ ~manualMode

(* C23  Switch held at boot is inert: from setup() with a switch asserted  *)
(* until gpioLoop processes both switches released, the tap counter and    *)
(* the stored switch keep their boot values, and gpioLoop with a switch    *)
(* asserted changes nothing at all (no relay write, no override flag, no   *)
(* publish, no tap counted).  gpioLoop with both switches released only    *)
(* clears manualLocked, without publishing, and a press processed after    *)
(* that sets the override and energizes the relay mapped to its switch.    *)
BootHeldInert ==
  HeldSinceBoot =>
    /\ manualSetupModeCounter = 0
    /\ manualLockActivatorSwitch = 0
    /\ pc = "gpio" =>
         \A conn \in BOOLEAN :
           LET g == G(conn)
               released == gpioLoop(g, FALSE, FALSE)
           IN  /\ \A p1 \in BOOLEAN, p2 \in BOOLEAN :
                    (p1 \/ p2) => gpioLoop(g, p1, p2) = g
               /\ released =
                    [g EXCEPT !.manualLocked =
                                ~(manualActivatorDelay > MANUAL_LOCK_MIN_DELAY_MS)]
               /\ ~released.manualLocked =>
                    \A p1 \in BOOLEAN, p2 \in BOOLEAN :
                      (p1 \/ p2) =>
                        LET r == gpioLoop(released, p1, p2)
                        IN  /\ r.manualMode /\ r.movementProgress
                            /\ r.relayL1 = MappedIsL1(p1)
                            /\ r.relayL2 = ~MappedIsL1(p1)

\* the switch asserted at boot is still held after the debounce window has
\* passed, with the blind idle and the lock gesture not disabled
BootHeldInertWitness ==
  /\ pc = "gpio" /\ HeldSinceBoot /\ ~blindDisableManualLock
  /\ manualActivatorDelay > MANUAL_LOCK_MIN_DELAY_MS
  /\ ~movementProgress /\ ~relayL1 /\ ~relayL2
  /\ gpioLoop(G(TRUE), TRUE, FALSE) = G(TRUE)

====
